---- MODULE Spec2Model ----
(***************************************************************************)
(* A model of the maintenance proxy of src/src/proxy.rs: the varint codec, *)
(* the packet codec (parse_packet, write_packet), the responder's frame    *)
(* decoder and state machine (process_socket), the control channel         *)
(* (process_control_socket) and the accept loop (start_proxy).             *)
(*                                                                         *)
(* Bytes are the integers 0..255.  An i32 is an integer in -2^31..2^31-1.  *)
(* An i64 payload is kept as the 8 bytes of its big-endian form.           *)
(***************************************************************************)
EXTENDS Integers, Sequences, FiniteSets, TLC

VARIABLES
    \* ---- the codec harness (SpecCodec)
    hpc,                \* which codec call comes next / has been made
    value,              \* the i32 handed to write_varint
    input,              \* the bytes handed to parse_varint
    encoded,            \* what write_varint produced
    decoded,            \* what parse_varint produced
    out_packet,         \* the ClientboundPacket handed to write_packet
    frame,              \* what write_packet produced
    \* ---- one responder connection (Spec)
    script,             \* the frames the client sends, by name (history)
    wire,               \* bytes the client has sent and the proxy has not read
    buf,                \* process_socket: buf
    connection_state,   \* process_socket: connection_state
    protocol_version,   \* process_socket: protocol_version (Option<i32>)
    task,               \* the connection task: running, ended, panicked
    panic,              \* which panic ended the task, none while there is none
    sent,               \* the packets written to the client, in order
    log,                \* one entry per packet the decoder produced (history)
    \* ---- the accept loop, the control channel and the tasks (SpecProxy)
    proxy,              \* start_proxy: running, or bailed (it returned Err)
    mode_state,         \* the is_proxy held by the watch channel
    mode_sent,          \* whether tx.send has been called since the start
    should_proxy,       \* start_proxy: should_proxy
    conns,              \* the process_socket tasks, in the order of accept
    ctls                \* the process_control_socket tasks, in that order

codec_vars == <<hpc, value, input, encoded, decoded, out_packet, frame>>
conn_vars ==
    <<script, wire, buf, connection_state, protocol_version, task, panic, sent,
      log>>
proxy_vars == <<proxy, mode_state, mode_sent, should_proxy, conns, ctls>>
vars == <<codec_vars, conn_vars, proxy_vars>>

----------------------------------------------------------------------------
(* Bounds of the model *)

\* write_varint is tried on every i32 in -MaxSmall..MaxSmall and on Corners
MaxSmall == 600
\* parse_varint is tried on every sequence of at most MaxVarintInput SampleBytes
MaxVarintInput == 7
\* write_packet is tried on every text of at most MaxText bytes
MaxText == 260
\* a client sends at most MaxFrames frames on a connection
MaxFrames == 3
\* and at most MaxWire bytes
MaxWire == 132
\* at most MaxConns connections are accepted on the public port
MaxConns == 2
\* and at most MaxCtls on the control port
MaxCtls == 2
\* the operator writes at most MaxControlBytes bytes in all
MaxControlBytes == 3
\* connections, public and control, and control bytes together number at
\* most MaxArrivals
MaxArrivals == 5

----------------------------------------------------------------------------
(* Helpers *)

Min(a, b) == IF a < b THEN a ELSE b

None == <<>>
Some(x) == <<x>>

\* the bytes of s from position i (1-based) to the end
Drop(s, i) == SubSeq(s, i + 1, Len(s))

RECURSIVE Concat(_)
Concat(ss) == IF ss = <<>> THEN <<>> ELSE Head(ss) \o Concat(Tail(ss))

----------------------------------------------------------------------------
(* The varint codec *)

SEGMENT_BITS == 127
CONTINUE_BIT == 128

\* current_byte & SEGMENT_BITS, for a u8
LowBits(b) == b % (SEGMENT_BITS + 1)
\* current_byte & CONTINUE_BIT != 0, for a u8
HasContinue(b) == (b \div CONTINUE_BIT) % 2 = 1

\* (seg as i32) << position, for 0 <= seg <= 127 and position in {0,7,..,28}:
\* the bits shifted past bit 31 are lost and bit 31 is the sign.
Shl32(seg, position) ==
    IF position + 7 <= 31
    THEN seg * (2 ^ position)
    ELSE LET width == 32 - position
             kept == seg % (2 ^ width)
         IN IF kept >= 2 ^ (width - 1)
            THEN (kept - (2 ^ width)) * (2 ^ position)
            ELSE kept * (2 ^ position)

Ok(v, rest) == [kind |-> "Ok", value |-> v, rest |-> rest]
Incomplete == [kind |-> "Incomplete", value |-> 0, rest |-> <<>>]
TooLarge(rest) == [kind |-> "TooLarge", value |-> 0, rest |-> rest]
Unimplemented == [kind |-> "unimplemented", value |-> 0, rest |-> <<>>]

\* a limit one group too low: the fifth group is refused
TooLargeAtEarly(position) == position >= 28

\* if position > 32, for the position after position += 7
TooLargeAt(position) == position > 32

\* The loop of parse_varint with the loop's variables as parameters.  The
\* bits of each group lie above those already in value, so |= is +.
RECURSIVE parse_varint_loop(_, _, _)
parse_varint_loop(in, val, position) ==
    IF in = <<>>
    THEN Incomplete
    ELSE LET current_byte == Head(in)
             inner_input == Tail(in)
             val2 == val + Shl32(LowBits(current_byte), position)
         IN IF ~HasContinue(current_byte)
            THEN Ok(val2, inner_input)
            ELSE IF TooLargeAt(position + 7)
                 THEN TooLarge(inner_input)
                 ELSE parse_varint_loop(inner_input, val2, position + 7)

parse_varint(in) == parse_varint_loop(in, 0, 0)

\* The bytes parse_varint looked at: all of them when it ran out of input.
Examined(in, r) == IF r.kind = "Incomplete" THEN Len(in) ELSE Len(in) - Len(r.rest)

\* value >>= 7 on an i32 is the arithmetic shift
Shr7(v) == v \div 128

\* The loop of write_varint.  The exit test reads only the low byte
\* ((value & 0xFF) as u8).  With value = -1 the low byte is 0xFF and
\* value >> 7 is -1 again: the loop's state repeats, so it never exits.
RECURSIVE write_varint_loop(_, _)
write_varint_loop(val, out) ==
    LET current_value == val % 256
    IN IF ~HasContinue(current_value)
       THEN [diverges |-> FALSE, bytes |-> Append(out, current_value)]
       ELSE IF Shr7(val) = val
            THEN [diverges |-> TRUE, bytes |-> out]
            ELSE write_varint_loop(Shr7(val),
                     Append(out, LowBits(current_value) + CONTINUE_BIT))

write_varint(val) == write_varint_loop(val, <<>>)

----------------------------------------------------------------------------
(* The codec harness: inputs are drawn in Init, each action is one call *)

I32Max == 2147483647
I32Min == -I32Max - 1

Corners ==
    { 2^14 - 1, 2^14, 2^21 - 1, 2^21, 2^28 - 1, 2^28, I32Max, I32Min,
      -(2^14), -(2^21), -(2^28), 757, 2097151, 25565 }

SampleInts == (-MaxSmall .. MaxSmall) \cup Corners

SampleBytes == { 0, 127, 128, 255 }

ByteInputs == UNION { [1..n -> SampleBytes] : n \in 0..MaxVarintInput }

NoResult == [kind |-> "none", value |-> 0, rest |-> <<>>]
NoBytes == [diverges |-> FALSE, bytes |-> <<>>]
NoPacket == [type |-> "none"]

\* a String of n bytes
Text(n) == [i \in 1..n |-> 120]

\* ClientboundPacket, with the texts as their bytes
PingResponsePacket(payload) == [type |-> "PingResponse", payload |-> payload]
StatusResponsePacket(json_response) ==
    [type |-> "StatusResponse", json_response |-> json_response]
DisconnectResponsePacket(reason) ==
    [type |-> "DisconnectResponse", reason |-> reason]

OutboundPackets ==
    { PingResponsePacket(p) :
        p \in { <<0, 0, 0, 0, 0, 0, 1, 42>>, [i \in 1..8 |-> 255] } }
    \cup { StatusResponsePacket(Text(n)) : n \in 0..MaxText }
    \cup { DisconnectResponsePacket(Text(n)) : n \in 0..MaxText }

\* buf.put(..) after buf.put(..): b follows a, and a call that never
\* returns keeps the whole from returning
Put(a, b) ==
    [diverges |-> a.diverges \/ b.diverges, bytes |-> a.bytes \o b.bytes]

Bytes(bs) == [diverges |-> FALSE, bytes |-> bs]

\* write_varint(0x00), write_varint(text.len() as i32), put(text.as_bytes())
write_text_packet(text) ==
    Put(Put(write_varint(0), write_varint(Len(text))), Bytes(text))

write_packet(pkt) ==
    LET packet_buf ==
            CASE pkt.type = "PingResponse" -> Bytes(<<1>> \o pkt.payload)
              [] pkt.type = "StatusResponse" -> write_text_packet(pkt.json_response)
              [] pkt.type = "DisconnectResponse" -> write_text_packet(pkt.reason)
        length == Len(packet_buf.bytes)
    IN Put(write_varint(length), packet_buf)

CodecIdle ==
    /\ hpc = "idle"
    /\ value = 0
    /\ input = <<>>
    /\ encoded = NoBytes
    /\ decoded = NoResult
    /\ out_packet = NoPacket
    /\ frame = NoBytes

ConnIdle ==
    /\ script = <<>>
    /\ wire = <<>>
    /\ buf = <<>>
    /\ connection_state = "Handshaking"
    /\ protocol_version = None
    /\ task = "idle"
    /\ panic = "none"
    /\ sent = <<>>
    /\ log = <<>>

ProxyIdle ==
    /\ proxy = "idle"
    /\ mode_state = TRUE
    /\ mode_sent = FALSE
    /\ should_proxy = TRUE
    /\ conns = <<>>
    /\ ctls = <<>>

InitCodec ==
    /\ ConnIdle
    /\ ProxyIdle
    /\ encoded = NoBytes
    /\ decoded = NoResult
    /\ frame = NoBytes
    /\ \/ /\ hpc = "write_varint"
          /\ value \in SampleInts
          /\ input = <<>>
          /\ out_packet = NoPacket
       \/ /\ hpc = "parse_varint"
          /\ value = 0
          /\ input \in ByteInputs
          /\ out_packet = NoPacket
       \/ /\ hpc = "write_packet"
          /\ value = 0
          /\ input = <<>>
          /\ out_packet \in OutboundPackets

CallWriteVarint ==
    /\ hpc = "write_varint"
    /\ encoded' = write_varint(value)
    /\ hpc' = "written"
    /\ UNCHANGED <<value, input, decoded, out_packet, frame, conn_vars, proxy_vars>>

CallParseEncoded ==
    /\ hpc = "written"
    /\ ~encoded.diverges
    /\ decoded' = parse_varint(encoded.bytes)
    /\ hpc' = "round_trip"
    /\ UNCHANGED <<value, input, encoded, out_packet, frame, conn_vars, proxy_vars>>

CallParseVarint ==
    /\ hpc = "parse_varint"
    /\ decoded' = parse_varint(input)
    /\ hpc' = "parsed"
    /\ UNCHANGED <<value, input, encoded, out_packet, frame, conn_vars, proxy_vars>>

CallWritePacket ==
    /\ hpc = "write_packet"
    /\ frame' = write_packet(out_packet)
    /\ hpc' = "packet_written"
    /\ UNCHANGED <<value, input, encoded, decoded, out_packet, conn_vars,
                   proxy_vars>>

----------------------------------------------------------------------------
(* The packet codec *)

\* nom's streaming be_u16
be_u16(in) ==
    IF Len(in) < 2 THEN Incomplete ELSE Ok(in[1] * 256 + in[2], Drop(in, 2))

\* nom's streaming be_i64; the value is kept as its 8 bytes
be_i64(in) ==
    IF Len(in) < 8 THEN Incomplete ELSE Ok(SubSeq(in, 1, 8), Drop(in, 8))

\* nom's streaming take(length as usize): a negative length is a count
\* above any buffer
take(length, in) ==
    IF length < 0 \/ Len(in) < length
    THEN Incomplete
    ELSE Ok(SubSeq(in, 1, length), Drop(in, length))

\* from_utf8_lossy never fails; the text is kept as the bytes it was made
\* from, and no caller reads it
parse_string(in) ==
    LET length == parse_varint(in)
    IN IF length.kind # "Ok" THEN length ELSE take(length.value, length.rest)

Handshake(pv, addr, port, next) ==
    [type |-> "Handshake", protocol_version |-> pv, server_address |-> addr,
     server_port |-> port, next_state |-> next]
StatusRequest == [type |-> "StatusRequest"]
PingRequest(payload) == [type |-> "PingRequest", payload |-> payload]
LoginStart(username) == [type |-> "LoginStart", username |-> username]

\* ConnectionState::Handshaking, packet id 0
parse_handshake(in) ==
    LET pv == parse_varint(in)
    IN IF pv.kind # "Ok" THEN pv ELSE
       LET server_address == parse_string(pv.rest)
       IN IF server_address.kind # "Ok" THEN server_address ELSE
          LET server_port == be_u16(server_address.rest)
          IN IF server_port.kind # "Ok" THEN server_port ELSE
             LET next_state == parse_varint(server_port.rest)
             IN IF next_state.kind # "Ok" THEN next_state ELSE
                Ok(Handshake(pv.value, server_address.value, server_port.value,
                             next_state.value),
                   next_state.rest)

\* ConnectionState::Status, packet id 1
parse_ping(in) ==
    LET payload == be_i64(in)
    IN IF payload.kind # "Ok" THEN payload
       ELSE Ok(PingRequest(payload.value), payload.rest)

\* ConnectionState::Login, packet id 0
parse_login_start(in) ==
    LET username == parse_string(in)
    IN IF username.kind # "Ok" THEN username
       ELSE Ok(LoginStart(username.value), username.rest)

\* a Status decoder that reads packet id 0 as another Handshake
parse_status_request_as_handshake(in) == parse_handshake(in)

\* ConnectionState::Status, packet id 0: no field is read
parse_status_request(in) == Ok(StatusRequest, in)

\* kind is Ok (value is the packet, rest the unread bytes), an error of
\* the parsers (Incomplete, TooLarge) or unimplemented (the panic of
\* unimplemented!())
parse_packet(in, state) ==
    LET packet_id == parse_varint(in)
    IN IF packet_id.kind # "Ok" THEN packet_id
       ELSE CASE state = "Handshaking" ->
                    IF packet_id.value = 0
                    THEN parse_handshake(packet_id.rest)
                    ELSE Unimplemented
              [] state = "Status" ->
                    IF packet_id.value = 0
                    THEN parse_status_request(packet_id.rest)
                    ELSE IF packet_id.value = 1
                         THEN parse_ping(packet_id.rest)
                         ELSE Unimplemented
              [] state = "Login" ->
                    IF packet_id.value = 0
                    THEN parse_login_start(packet_id.rest)
                    ELSE Unimplemented
              [] OTHER -> Unimplemented

----------------------------------------------------------------------------
(* The replies of the responder *)

PingResponse(payload) == [type |-> "PingResponse", payload |-> payload]

\* a protocol number written into the reply instead of the negotiated one
status_response_fixed(pv) ==
    [type |-> "StatusResponse",
     version |-> [name |-> "1.7.10", protocol |-> 47],
     description |-> [text |-> "Server is currently in maintenance"],
     players |-> None,
     favicon |-> Some("data:image/png;base64,")]

\* the StatusResponse struct that is serialised to json_response; players
\* is None and skipped, favicon is Some("data:image/png;base64,...")
status_response(pv) ==
    [type |-> "StatusResponse",
     version |-> [name |-> "1.7.10", protocol |-> pv],
     description |-> [text |-> "Server is currently in maintenance"],
     players |-> None,
     favicon |-> Some("data:image/png;base64,")]

disconnect_response ==
    [type |-> "DisconnectResponse",
     reason |-> "{\"text\": \"Server is currently in maintenance\"}"]

\* a reply that greets the player by the length of the name
login_start_reply_named(packet) ==
    [type |-> "DisconnectResponse",
     reason |-> IF Len(packet.username) = 1
                THEN "{\"text\": \"Server is currently in maintenance, B\"}"
                ELSE "{\"text\": \"Server is currently in maintenance\"}"]

\* the reply to LoginStart { .. }: the username is not read
login_start_reply(packet) == disconnect_response

----------------------------------------------------------------------------
(* process_socket with should_proxy = false: the responder *)

PACKET_LENGTH_FIELD_MAX_SIZE == 3

\* the task's variables as one record, for the loop below
Conn(b, st, pv, t, p, s, l) ==
    [buf |-> b, connection_state |-> st, protocol_version |-> pv,
     task |-> t, panic |-> p, sent |-> s, log |-> l]

\* the task panicked in why: an unwrap of Err or None, unimplemented!() or
\* assert_eq!
Panicked(c, why) == [c EXCEPT !.task = "panicked", !.panic = why]

\* the history entry of one decoded packet
Entry(packet, before, after) ==
    [packet |-> packet, state |-> before.connection_state,
     after |-> after.connection_state,
     protocol_version |-> after.protocol_version,
     replies |-> SubSeq(after.sent, Len(before.sent) + 1, Len(after.sent))]

\* the two arms exchanged
next_connection_state_swapped(next_state) ==
    IF next_state = 1 THEN "Login"
    ELSE IF next_state = 2 THEN "Status"
    ELSE "break"

\* connection_state = match next_state { 1 => Status, 2 => Login, _ => break }
next_connection_state(next_state) ==
    IF next_state = 1 THEN "Status"
    ELSE IF next_state = 2 THEN "Login"
    ELSE "break"

\* a Handshake arm that forgets the version
store_protocol_version_skipped(c, pv) == c

\* protocol_version = Some(packet_protocol_version)
store_protocol_version(c, pv) == [c EXCEPT !.protocol_version = Some(pv)]

\* socket.write_all(&write_packet(packet))
write_all(c, packet) == [c EXCEPT !.sent = Append(c.sent, packet)]

\* match packet { ... }: the connection after the arm, and whether the arm
\* left the 'parse_packets loop
handle_packet(c, packet) ==
    CASE packet.type = "Handshake" ->
            LET c1 == store_protocol_version(c, packet.protocol_version)
                st == next_connection_state(packet.next_state)
            IN IF st = "break"
               THEN [conn |-> c1, brk |-> TRUE]
               ELSE [conn |-> [c1 EXCEPT !.connection_state = st], brk |-> FALSE]
      [] packet.type = "StatusRequest" ->
            IF c.protocol_version = None
            THEN [conn |-> Panicked(c, "unwrap"), brk |-> TRUE]
            ELSE [conn |-> write_all(c, status_response(c.protocol_version[1])),
                  brk |-> FALSE]
      [] packet.type = "PingRequest" ->
            [conn |-> write_all(c, PingResponse(packet.payload)), brk |-> FALSE]
      [] packet.type = "LoginStart" ->
            [conn |-> write_all(c, login_start_reply(packet)), brk |-> FALSE]

\* the 'parse_packets loop, run until it breaks or the task panics
RECURSIVE parse_packets(_)
parse_packets(c) ==
    IF c.buf = <<>> THEN c ELSE
    LET provisional == Min(PACKET_LENGTH_FIELD_MAX_SIZE, Len(c.buf))
        header == parse_varint(SubSeq(c.buf, 1, provisional))
    IN IF header.kind # "Ok" THEN Panicked(c, "unwrap") ELSE
       LET remainder == header.rest
           packet_length == header.value
           packet_length_field_length == provisional - Len(remainder)
       IN IF Len(remainder) = 0 THEN c
          ELSE IF Len(c.buf) < packet_length + packet_length_field_length THEN c
          ELSE
          LET packet_buf == SubSeq(c.buf, packet_length_field_length + 1,
                                   packet_length_field_length + packet_length)
              c1 == [c EXCEPT !.buf =
                        Drop(c.buf, packet_length_field_length + packet_length)]
              parsed == parse_packet(packet_buf, c.connection_state)
          IN IF parsed.kind = "unimplemented" THEN Panicked(c1, "unimplemented")
             ELSE IF parsed.kind # "Ok" THEN Panicked(c1, "unwrap")
             ELSE IF Len(parsed.rest) # 0 THEN Panicked(c1, "assert_eq")
             ELSE LET h == handle_packet(c1, parsed.value)
                      c2 == [h.conn EXCEPT !.log =
                                Append(c1.log, Entry(parsed.value, c1, h.conn))]
                  IN IF h.brk \/ c2.task # "running"
                     THEN c2
                     ELSE parse_packets(c2)

----------------------------------------------------------------------------
(* The client of a responder connection: what it may send *)

\* the client's encoding of a length or a field, n >= 0
RECURSIVE client_varint(_)
client_varint(n) ==
    IF n < 128 THEN <<n>> ELSE <<(n % 128) + 128>> \o client_varint(n \div 128)

client_string(bytes) == client_varint(Len(bytes)) \o bytes

\* one frame: [varint length][varint packet id][payload]
Frame(packet_id, payload) ==
    LET body == client_varint(packet_id) \o payload
    IN client_varint(Len(body)) \o body

HandshakeFrame(pv, addr, port, next) ==
    Frame(0, client_varint(pv) \o client_string(addr)
             \o <<port \div 256, port % 256>> \o client_varint(next))

\* a server address of 122 bytes makes a payload of 128 bytes, the
\* shortest whose length header takes 2 bytes
LongAddress == [i \in 1..122 |-> 97]

FrameNames ==
    { "H757_1", "H757_2", "H47_3", "HLong_1",
      "Id0", "Ping", "Login_Al", "Login_B" }

FrameBytes(name) ==
    CASE name = "H757_1" -> HandshakeFrame(757, <<>>, 25565, 1)
      [] name = "H757_2" -> HandshakeFrame(757, <<>>, 25565, 2)
      [] name = "H47_3" -> HandshakeFrame(47, <<>>, 25565, 3)
      [] name = "HLong_1" -> HandshakeFrame(47, LongAddress, 25565, 1)
      [] name = "Id0" -> Frame(0, <<>>)
      [] name = "Ping" -> Frame(1, <<0, 0, 0, 0, 0, 0, 1, 42>>)
      [] name = "Login_Al" -> Frame(0, client_string(<<65, 108>>))
      [] name = "Login_B" -> Frame(0, client_string(<<66>>))

ScriptBytes(names) == Concat([i \in 1..Len(names) |-> FrameBytes(names[i])])

Scripts ==
    { s \in UNION { [1..n -> FrameNames] : n \in 0..MaxFrames } :
        Len(ScriptBytes(s)) <= MaxWire }

----------------------------------------------------------------------------
(* The specification of one responder connection *)

Init ==
    /\ CodecIdle
    /\ ProxyIdle
    /\ script \in Scripts
    /\ wire = ScriptBytes(script)
    /\ buf = <<>>
    /\ connection_state = "Handshaking"
    /\ protocol_version = None
    /\ task = "running"
    /\ panic = "none"
    /\ sent = <<>>
    /\ log = <<>>

\* socket.read_buf(&mut buf) returned n > 0 bytes, then the 'parse_packets
\* loop ran
Read ==
    /\ task = "running"
    /\ \E n \in 1..Len(wire) :
         \E c \in {parse_packets(Conn(buf \o SubSeq(wire, 1, n), connection_state,
                                     protocol_version, task, panic, sent, log))} :
            /\ wire' = Drop(wire, n)
            /\ buf' = c.buf
            /\ connection_state' = c.connection_state
            /\ protocol_version' = c.protocol_version
            /\ task' = c.task
            /\ panic' = c.panic
            /\ sent' = c.sent
            /\ log' = c.log
    /\ UNCHANGED <<script, codec_vars, proxy_vars>>

\* socket.read_buf returned 0: the client closed after its last byte
ReadEof ==
    /\ task = "running"
    /\ wire = <<>>
    /\ task' = "ended"
    /\ UNCHANGED <<script, wire, buf, connection_state, protocol_version, panic,
                   sent, log, codec_vars, proxy_vars>>

Next == Read \/ ReadEof

Spec == Init /\ [][Next]_vars

----------------------------------------------------------------------------
(* The specification of the codec harness *)

NextCodec ==
    CallWriteVarint \/ CallParseEncoded \/ CallParseVarint \/ CallWritePacket

SpecCodec == InitCodec /\ [][NextCodec]_vars

----------------------------------------------------------------------------
(* start_proxy, process_control_socket and the dispatch of process_socket *)

\* the bytes an operator may write on a control connection
ControlBytes == { 0, 1, 2 }

\* a process_socket task: its should_proxy parameter, where it is, the
\* number of backend connections it has opened, whether it has copied
\* client bytes to the backend and whether it has written a reply itself
NewConn(flag) ==
    [should_proxy |-> flag, pc |-> "spawned", egress |-> 0, relayed |-> FALSE,
     answered |-> FALSE]

\* a process_control_socket task: the operator's bytes it has not read,
\* its buf and the capacity of buf, where it is; and as history the
\* number of bytes the operator has written and the number of tx.send
\* calls the task has made
NewCtl ==
    [wire |-> <<>>, buf |-> <<>>, cap |-> 1, task |-> "running", written |-> 0,
     published |-> 0]

InitProxy ==
    /\ CodecIdle
    /\ ConnIdle
    /\ proxy = "running"
    /\ mode_state = TRUE
    /\ mode_sent = FALSE
    /\ should_proxy = TRUE
    /\ conns = <<>>
    /\ ctls = <<>>

\* the number of bytes the operator has written, over all connections
RECURSIVE WrittenTotal(_)
WrittenTotal(cs) ==
    IF cs = <<>> THEN 0 ELSE Head(cs).written + WrittenTotal(Tail(cs))

\* what has reached the two listeners: public connections, control
\* connections and control bytes
Arrivals == Len(conns) + Len(ctls) + WrittenTotal(ctls)

\* a receiver that keeps the value the channel was created with
borrow_initial == TRUE

\* rx.borrow().is_proxy: the value sent last, the initial one before any
borrow == mode_state

\* select!: _ = rx.changed() => should_proxy = rx.borrow().is_proxy.  rx
\* is a fresh clone of the receiver that has seen only the initial value,
\* so the branch is ready as soon as any value has been sent.
ModeChanged ==
    /\ proxy = "running"
    /\ mode_sent
    /\ should_proxy' = borrow
    /\ UNCHANGED <<proxy, mode_state, mode_sent, conns, ctls, codec_vars, conn_vars>>

\* select!: listener.accept() returned Ok: the task is spawned with the
\* accept loop's should_proxy
AcceptPublic ==
    /\ proxy = "running"
    /\ Len(conns) < MaxConns
    /\ Arrivals < MaxArrivals
    /\ conns' = Append(conns, NewConn(should_proxy))
    /\ UNCHANGED <<proxy, mode_state, mode_sent, should_proxy, ctls, codec_vars,
                   conn_vars>>

\* select!: control_listener.accept() returned Ok
AcceptControl ==
    /\ proxy = "running"
    /\ Len(ctls) < MaxCtls
    /\ Arrivals < MaxArrivals
    /\ ctls' = Append(ctls, NewCtl)
    /\ UNCHANGED <<proxy, mode_state, mode_sent, should_proxy, conns, codec_vars,
                   conn_vars>>

\* select!: listener.accept() returned Err: anyhow::bail!, start_proxy and
\* with it main return: the process ends, and every task with it
AcceptFailed ==
    /\ proxy = "running"
    /\ proxy' = "bailed"
    /\ conns' = <<>>
    /\ ctls' = <<>>
    /\ UNCHANGED <<mode_state, mode_sent, should_proxy, codec_vars, conn_vars>>

\* select!: control_listener.accept() returned Err: the same bail!, from
\* the third branch
AcceptControlFailed ==
    /\ proxy = "running"
    /\ proxy' = "bailed_control"
    /\ conns' = <<>>
    /\ ctls' = <<>>
    /\ UNCHANGED <<mode_state, mode_sent, should_proxy, codec_vars, conn_vars>>

\* the accept loop's flag read when the task runs, not when it was spawned
ModeOfLive(c) == should_proxy

\* the should_proxy a process_socket task decides on: its parameter
ModeOf(c) == conns[c].should_proxy

\* process_socket, should_proxy: TcpStream::connect succeeded
RelayConnect(c) ==
    /\ proxy = "running"
    /\ conns[c].pc = "spawned"
    /\ ModeOf(c)
    /\ conns' = [conns EXCEPT ![c].pc = "relaying", ![c].egress = @ + 1]
    /\ UNCHANGED <<proxy, mode_state, mode_sent, should_proxy, ctls, codec_vars,
                   conn_vars>>

\* process_socket, should_proxy: TcpStream::connect failed, the ? returns
RelayConnectFailed(c) ==
    /\ proxy = "running"
    /\ conns[c].pc = "spawned"
    /\ ModeOf(c)
    /\ conns' = [conns EXCEPT ![c].pc = "failed"]
    /\ UNCHANGED <<proxy, mode_state, mode_sent, should_proxy, ctls, codec_vars,
                   conn_vars>>

\* copy_bidirectional moved client bytes to the backend
RelayCopy(c) ==
    /\ proxy = "running"
    /\ conns[c].pc = "relaying"
    /\ conns' = [conns EXCEPT ![c].relayed = TRUE]
    /\ UNCHANGED <<proxy, mode_state, mode_sent, should_proxy, ctls, codec_vars,
                   conn_vars>>

\* process_socket, !should_proxy: the responder's loop is entered
ResponderStart(c) ==
    /\ proxy = "running"
    /\ conns[c].pc = "spawned"
    /\ ~ModeOf(c)
    /\ conns' = [conns EXCEPT ![c].pc = "responding"]
    /\ UNCHANGED <<proxy, mode_state, mode_sent, should_proxy, ctls, codec_vars,
                   conn_vars>>

\* a responder that also hands the request to the backend
AnswerAndForward(conn) == [conn EXCEPT !.answered = TRUE, !.relayed = TRUE]

\* the arms of match packet: the only writes go to socket, the client
Answer(conn) == [conn EXCEPT !.answered = TRUE]

\* the responder read a request and wrote its own reply
ResponderAnswer(c) ==
    /\ proxy = "running"
    /\ conns[c].pc = "responding"
    /\ conns' = [conns EXCEPT ![c] = Answer(@)]
    /\ UNCHANGED <<proxy, mode_state, mode_sent, should_proxy, ctls, codec_vars,
                   conn_vars>>

\* a panic that unwinds through every task of the runtime
PanicAll(cs, c) == [i \in 1..Len(cs) |-> [cs[i] EXCEPT !.pc = "panicked"]]

\* a panic in a task spawned by tokio::spawn unwinds that task only: the
\* runtime catches it and drops the task with its socket
Panic(cs, c) == [cs EXCEPT ![c].pc = "panicked"]

\* the responder panicked: unimplemented!() in parse_packet for a packet
\* id the state does not support, an unwrap of a parser's Err, or the
\* assert_eq! on the parser's remainder
ResponderPanic(c) ==
    /\ proxy = "running"
    /\ conns[c].pc = "responding"
    /\ conns' = Panic(conns, c)
    /\ UNCHANGED <<proxy, mode_state, mode_sent, should_proxy, ctls, codec_vars,
                   conn_vars>>

\* copy_bidirectional returned, or the responder read 0 bytes
ConnEnd(c) ==
    /\ proxy = "running"
    /\ conns[c].pc \in {"relaying", "responding"}
    /\ conns' = [conns EXCEPT ![c].pc = "ended"]
    /\ UNCHANGED <<proxy, mode_state, mode_sent, should_proxy, ctls, codec_vars,
                   conn_vars>>

\* the operator (cli::send_proxy_flag, or any client) writes one byte
OperatorWrite(k, b) ==
    /\ proxy = "running"
    /\ ctls[k].task = "running"
    /\ WrittenTotal(ctls) < MaxControlBytes
    /\ Arrivals < MaxArrivals
    /\ ctls' = [ctls EXCEPT ![k].wire = Append(@, b), ![k].written = @ + 1]
    /\ UNCHANGED <<proxy, mode_state, mode_sent, should_proxy, conns, codec_vars,
                   conn_vars>>

\* read_buf fills the spare capacity of buf; BytesMut reserves 64 more
\* bytes when none is left
Spare(ctl) == IF ctl.cap = Len(ctl.buf) THEN 64 ELSE ctl.cap - Len(ctl.buf)

\* let is_proxy = buf.get_u8() == 1
IsProxyByte(b) == b = 1

\* one round of process_control_socket's loop with n > 0: read_buf, then
\* if buf.len() == 1 the byte is taken out of buf and published
ControlRead(k) ==
    /\ proxy = "running"
    /\ ctls[k].task = "running"
    /\ \E n \in 1..Min(Len(ctls[k].wire), Spare(ctls[k])) :
         LET ctl == ctls[k]
             cap1 == IF ctl.cap = Len(ctl.buf) THEN Len(ctl.buf) + 64 ELSE ctl.cap
             buf1 == ctl.buf \o SubSeq(ctl.wire, 1, n)
             wire1 == Drop(ctl.wire, n)
         IN IF Len(buf1) = 1
            THEN /\ ctls' = [ctls EXCEPT ![k] =
                       [ctl EXCEPT !.wire = wire1, !.buf = <<>>, !.cap = cap1 - 1,
                                   !.published = @ + 1]]
                 /\ mode_state' = IsProxyByte(buf1[1])
                 /\ mode_sent' = TRUE
            ELSE /\ ctls' = [ctls EXCEPT ![k] =
                       [ctl EXCEPT !.wire = wire1, !.buf = buf1, !.cap = cap1]]
                 /\ UNCHANGED <<mode_state, mode_sent>>
    /\ UNCHANGED <<proxy, should_proxy, conns, codec_vars, conn_vars>>

\* read_buf returned 0: the operator closed the connection; the task
\* returns Ok and its buf is dropped
ControlEof(k) ==
    /\ proxy = "running"
    /\ ctls[k].task = "running"
    /\ ctls[k].wire = <<>>
    /\ ctls' = [ctls EXCEPT ![k].task = "ended", ![k].buf = <<>>]
    /\ UNCHANGED <<proxy, mode_state, mode_sent, should_proxy, conns, codec_vars,
                   conn_vars>>

\* readable() or read_buf returned Err: the ? returns it, and the socket
\* and buf are dropped with what they held
ControlReadFailed(k) ==
    /\ proxy = "running"
    /\ ctls[k].task = "running"
    /\ ctls' = [ctls EXCEPT ![k].task = "failed", ![k].wire = <<>>,
                            ![k].buf = <<>>]
    /\ UNCHANGED <<proxy, mode_state, mode_sent, should_proxy, conns, codec_vars,
                   conn_vars>>

NextProxy ==
    \/ ModeChanged
    \/ AcceptPublic
    \/ AcceptControl
    \/ AcceptFailed
    \/ AcceptControlFailed
    \/ \E c \in 1..Len(conns) : RelayConnect(c)
    \/ \E c \in 1..Len(conns) : RelayConnectFailed(c)
    \/ \E c \in 1..Len(conns) : RelayCopy(c)
    \/ \E c \in 1..Len(conns) : ResponderStart(c)
    \/ \E c \in 1..Len(conns) : ResponderAnswer(c)
    \/ \E c \in 1..Len(conns) : ResponderPanic(c)
    \/ \E c \in 1..Len(conns) : ConnEnd(c)
    \/ \E k \in 1..Len(ctls) : \E b \in ControlBytes : OperatorWrite(k, b)
    \/ \E k \in 1..Len(ctls) : ControlRead(k)
    \/ \E k \in 1..Len(ctls) : ControlEof(k)
    \/ \E k \in 1..Len(ctls) : ControlReadFailed(k)

SpecProxy == InitProxy /\ [][NextProxy]_vars

\* select! polls its branches in a random order and takes one that is
\* ready: while rx.changed() is ready, and it is ready in every round once
\* a value has been sent, the accepts cannot be taken forever in its place
SpecProxyFair == SpecProxy /\ WF_vars(ModeChanged)

----------------------------------------------------------------------------
(* Properties of the varint codec (SpecCodec) *)

\* the number of leading bytes of s whose continuation bit is set
RECURSIVE ContinuationRun(_)
ContinuationRun(s) ==
    IF s = <<>> \/ ~HasContinue(Head(s)) THEN 0 ELSE 1 + ContinuationRun(Tail(s))

\* C2: for every i32 v, write_varint(v) returns, and parse_varint of the k
\* bytes it wrote returns v and consumes exactly the k bytes.
C2_RoundTrip ==
    /\ hpc = "written" => ~encoded.diverges
    /\ hpc = "round_trip" =>
          /\ decoded.kind = "Ok"
          /\ decoded.value = value
          /\ decoded.rest = <<>>

\* C3: parse_varint looks at no more than 5 bytes; a sequence whose
\* continuation bit stays set for 6 or more groups ends in the overflow
\* failure; 1 to 5 groups of which the last has the bit clear give a value.
C3_DecodeBounded ==
    hpc = "parsed" =>
       /\ Examined(input, decoded) <= 5
       /\ decoded.kind \in {"Ok", "Incomplete", "TooLarge"}
       /\ ContinuationRun(input) >= 6 => decoded.kind = "TooLarge"
       /\ (ContinuationRun(input) < 5 /\ ContinuationRun(input) < Len(input)) =>
             /\ decoded.kind = "Ok"
             /\ Len(decoded.rest) = Len(input) - (ContinuationRun(input) + 1)

\* a run of more than 5 continuation bytes was parsed and refused
C3_Witness ==
    /\ hpc = "parsed"
    /\ ContinuationRun(input) >= 6
    /\ decoded.kind = "TooLarge"
    /\ Examined(input, decoded) = 5

----------------------------------------------------------------------------
(* Properties of one responder connection (Spec) *)

\* the frames that are one whole Handshake packet
HandshakeFrames == { "H757_1", "H757_2", "H47_3", "HLong_1" }

IsHandshake(e) == e.packet.type = "Handshake"
IsLegal(e) == IsHandshake(e) /\ e.packet.next_state \in {1, 2}
IsIllegal(e) == IsHandshake(e) /\ e.packet.next_state \notin {1, 2}

\* C1: a single valid frame, however its bytes are split into reads, gives
\* no packet before its last byte has been read and exactly one packet
\* after, and the task does not fail.
C1_FragmentedDelivery ==
    (Len(script) = 1 /\ script[1] \in HandshakeFrames) =>
       /\ task # "panicked"
       /\ wire # <<>> => Len(log) = 0
       /\ wire = <<>> => Len(log) = 1

\* C4: a Handshake processed in Handshaking with next_state 1 leaves the
\* connection in Status, with next_state 2 in Login; in both cases its
\* protocol_version is stored and nothing is written to the client.
C4_LegalHandshake ==
    \A i \in 1..Len(log) :
       (IsLegal(log[i]) /\ log[i].state = "Handshaking") =>
          /\ log[i].packet.next_state = 1 => log[i].after = "Status"
          /\ log[i].packet.next_state = 2 => log[i].after = "Login"
          /\ log[i].protocol_version = Some(log[i].packet.protocol_version)
          /\ log[i].replies = <<>>

\* a Handshake to Login was processed after a rejected one
C4_Witness ==
    /\ Len(log) >= 2
    /\ IsIllegal(log[1])
    /\ IsLegal(log[2])
    /\ log[2].packet.next_state = 2
    /\ connection_state = "Login"
    /\ protocol_version = Some(757)

\* C5: after a Handshake whose next_state is neither 1 nor 2 the
\* connection is closed: no later packet of the connection is processed.
C5_IllegalHandshakeCloses ==
    \A i \in 1..Len(log) : IsIllegal(log[i]) => i = Len(log)

\* C6: a StatusRequest after Handshake{protocol_version = p, next_state = 1}
\* is answered by exactly one StatusResponse whose version.protocol is p,
\* with a favicon and without players.
C6_StatusEchoesHandshake ==
    \A i \in 1..Len(log) :
       log[i].packet.type = "StatusRequest" =>
          \E j \in 1..(i - 1) :
             /\ IsHandshake(log[j])
             /\ log[j].packet.next_state = 1
             /\ \A k \in (j + 1)..(i - 1) : ~IsHandshake(log[k])
             /\ Len(log[i].replies) = 1
             /\ log[i].replies[1].type = "StatusResponse"
             /\ log[i].replies[1].version.protocol = log[j].packet.protocol_version
             /\ log[i].replies[1].favicon # None
             /\ log[i].replies[1].players = None

\* a status request was answered with 757 after a handshake that carried 47
\* had been rejected
C6_Witness ==
    /\ Len(log) = 3
    /\ IsIllegal(log[1])
    /\ log[1].packet.protocol_version = 47
    /\ log[2].packet.protocol_version = 757
    /\ log[3].packet.type = "StatusRequest"
    /\ Len(sent) = 1
    /\ sent[1].version.protocol = 757

\* C7: a LoginStart after Handshake{next_state = 2} is answered by exactly
\* one DisconnectResponse whose reason is the same text for every
\* username, and the connection stays in Login.
C7_LoginRejected ==
    /\ connection_state # "Play"
    /\ \A i \in 1..Len(log) :
          log[i].packet.type = "LoginStart" =>
             /\ log[i].state = "Login"
             /\ log[i].after = "Login"
             /\ Len(log[i].replies) = 1
             /\ log[i].replies[1].type = "DisconnectResponse"
             /\ log[i].replies[1].reason =
                   "{\"text\": \"Server is currently in maintenance\"}"

\* two logins with different usernames were rejected
C7_Witness ==
    \E i, j \in 1..Len(log) :
       /\ log[i].packet.type = "LoginStart"
       /\ log[j].packet.type = "LoginStart"
       /\ log[i].packet.username # log[j].packet.username
       /\ log[i].replies = log[j].replies
       /\ Len(log[i].replies) = 1

\* C8: once the DisconnectResponse for a LoginStart has been sent, no
\* further frame of that client is decoded or answered.
C8_CloseAfterDisconnect ==
    \A i \in 1..Len(log) :
       \A j \in 1..Len(log) :
          (log[i].packet.type = "LoginStart" /\ log[i].replies # <<>>) => j <= i

----------------------------------------------------------------------------
(* Properties of the accept loop and the dispatch (SpecProxy) *)

\* C9: the mode of a connection is the one it was accepted with: a task
\* spawned as a responder only ever answers itself and a task spawned as a
\* relay only ever relays, whatever the mode flag has become since.
C9_ModeIsolation ==
    \A c \in 1..Len(conns) :
       /\ (conns[c].pc = "relaying" \/ conns[c].relayed \/ conns[c].egress > 0)
             => conns[c].should_proxy
       /\ (conns[c].pc = "responding" \/ conns[c].answered)
             => ~conns[c].should_proxy

\* a task accepted as a responder has answered while the channel and the
\* accept loop are both in relay mode, next to a task accepted as a relay
\* that has relayed
C9_Witness ==
    \E c, d \in 1..Len(conns) :
       /\ ~conns[c].should_proxy
       /\ conns[c].answered
       /\ conns[c].pc = "responding"
       /\ mode_state
       /\ should_proxy
       /\ conns[d].should_proxy
       /\ conns[d].relayed

\* C10: every connection accepted on the public port is dispatched with
\* the value the watch channel holds at the moment of the accept.
C10_AcceptTimeSnapshot ==
    [][Len(conns') = Len(conns) + 1 =>
          conns'[Len(conns')].should_proxy = mode_state]_vars

\* C11: a control byte equal to 0 publishes responder mode and every
\* nonzero control byte publishes relay mode.
C11_ControlByteMapping ==
    [][\A k \in 1..Len(ctls) :
          (Len(ctls') >= k /\ ctls'[k].published = ctls[k].published + 1) =>
             mode_state' = (Head(ctls[k].wire) # 0)]_vars

\* C12: when a responder task panics (an unsupported packet id, or any
\* other decode error), only that task ends: every other connection, every
\* control task and the mode are as before, and the accept loop goes on.
C12_FaultContainment ==
    [][\A c \in 1..Len(conns) :
          (Len(conns') >= c /\ conns[c].pc # "panicked"
                            /\ conns'[c].pc = "panicked") =>
             /\ proxy' = "running"
             /\ Len(conns') = Len(conns)
             /\ \A d \in 1..Len(conns) : d # c => conns'[d] = conns[d]
             /\ ctls' = ctls
             /\ mode_state' = mode_state
             /\ should_proxy' = should_proxy]_vars

\* the first responder has panicked; the second connection, a relay, is
\* copying and a control task has published since
C12_Witness ==
    /\ proxy = "running"
    /\ Len(conns) = 2
    /\ conns[1].pc = "panicked"
    /\ conns[2].pc = "relaying"
    /\ conns[2].relayed
    /\ \E k \in 1..Len(ctls) : ctls[k].published >= 2 /\ ctls[k].task = "running"

\* the select! loop of start_proxy is still polling listener.accept()
Accepting == proxy = "running"

\* C13: a failed accept on the control listener, or a failed read on a
\* control connection, leaves the open relay and responder connections
\* running and the public listener accepting.
C13_ControlFailureIsolation ==
    [][(\/ proxy' = "bailed_control"
        \/ \E k \in 1..Len(ctls) :
              /\ Len(ctls') >= k
              /\ ctls[k].task = "running"
              /\ ctls'[k].task = "failed") =>
          /\ conns' = conns
          /\ Accepting']_vars

\* C14: a connection dispatched as a responder opens no backend connection
\* and forwards nothing to the backend; one dispatched as a relay opens one
\* backend connection (none when the connect fails) and the proxy writes no
\* reply of its own on it.
C14_ResponderNeverContactsBackend ==
    \A c \in 1..Len(conns) :
       /\ ~conns[c].should_proxy =>
             /\ conns[c].egress = 0
             /\ ~conns[c].relayed
       /\ conns[c].should_proxy =>
             /\ ~conns[c].answered
             /\ conns[c].relayed => conns[c].pc \in {"relaying", "ended"}
             /\ conns[c].egress =
                   IF conns[c].pc \in {"relaying", "ended"} THEN 1 ELSE 0

\* a responder has answered and ended without a backend connection, and a
\* relay has copied over its one backend connection and ended
C14_Witness ==
    \E c, d \in 1..Len(conns) :
       /\ ~conns[c].should_proxy
       /\ conns[c].answered
       /\ conns[c].pc = "ended"
       /\ conns[c].egress = 0
       /\ conns[d].should_proxy
       /\ conns[d].relayed
       /\ conns[d].pc = "ended"
       /\ conns[d].egress = 1

----------------------------------------------------------------------------
(* Properties of the frame decoder and the state machine (Spec) *)

\* the number of bytes of the script the task has read
Arrived == Len(ScriptBytes(script)) - Len(wire)

\* where the i-th frame of the script ends in the client's byte stream
FrameEnd(i) == Len(ScriptBytes(SubSeq(script, 1, i)))

\* the number of frames of the script that have arrived whole
CompleteFrames == Cardinality({ i \in 1..Len(script) : FrameEnd(i) <= Arrived })

\* C15: when the decoder's loop has stopped on a connection that is still
\* open, every frame that has arrived whole has been decoded, once and in
\* order, and buf holds only the partial frame at the tail.
C15_DrainCompleteness ==
    task = "running" =>
       /\ Len(log) = CompleteFrames
       /\ Len(buf) = Arrived - FrameEnd(CompleteFrames)

\* C16: the connection starts in Handshaking, only a Handshake processed in
\* Handshaking changes the state, Status and Login are never left, and
\* Play is never reached.
C16_StateMonotone ==
    /\ connection_state # "Play"
    /\ Len(log) = 0 => connection_state = "Handshaking"
    /\ Len(log) > 0 =>
          /\ log[1].state = "Handshaking"
          /\ connection_state = log[Len(log)].after
    /\ \A i \in 1..Len(log) :
          /\ log[i].after # "Play"
          /\ i > 1 => log[i].state = log[i - 1].after
          /\ log[i].after # log[i].state =>
                /\ IsHandshake(log[i])
                /\ log[i].state = "Handshaking"
          /\ log[i].state \in {"Status", "Login"} => log[i].after = log[i].state

\* a status request and a ping were processed after the handshake and the
\* state stayed Status
C16_Witness ==
    /\ Len(log) = 3
    /\ log[1].state = "Handshaking"
    /\ log[1].after = "Status"
    /\ log[2].packet.type = "StatusRequest"
    /\ log[3].packet.type = "PingRequest"
    /\ connection_state = "Status"

\* C17: in Status and in Login protocol_version is set, so the unwrap that
\* builds a StatusResponse finds a value for every StatusRequest.
C17_VersionKnown ==
    /\ connection_state \in {"Status", "Login"} => protocol_version # None
    /\ \A i \in 1..Len(log) :
          /\ log[i].after \in {"Status", "Login"} => log[i].protocol_version # None
          /\ log[i].packet.type = "StatusRequest" =>
                /\ log[i].protocol_version # None
                /\ Len(log[i].replies) = 1

\* two status requests were answered from the stored version
C17_Witness ==
    /\ connection_state = "Status"
    /\ protocol_version = Some(757)
    /\ Len(sent) = 2
    /\ sent[1].type = "StatusResponse"
    /\ sent[2].type = "StatusResponse"
    /\ task = "running"

\* C18: for every frame the decoder extracts, parse_packet leaves nothing
\* of the frame unread: the assert_eq! on its remainder never fails.
C18_FrameFullyConsumed == panic # "assert_eq"

----------------------------------------------------------------------------
(* Properties of write_packet (SpecCodec) *)

\* the text of an outbound packet that carries one
TextOf(pkt) ==
    IF pkt.type = "StatusResponse" THEN pkt.json_response ELSE pkt.reason

\* C19: the leading length varint of every frame write_packet emits
\* decodes to the number of bytes that follow it, and the length prefix of
\* a text packet decodes to the byte length of the text.
C19_FramesWellFormed ==
    hpc = "packet_written" =>
       /\ ~frame.diverges
       /\ LET outer == parse_varint(frame.bytes)
          IN /\ outer.kind = "Ok"
             /\ outer.value = Len(outer.rest)
             /\ out_packet.type # "PingResponse" =>
                   LET id == parse_varint(outer.rest)
                       inner == parse_varint(id.rest)
                   IN /\ id.kind = "Ok"
                      /\ id.value = 0
                      /\ inner.kind = "Ok"
                      /\ inner.value = Len(TextOf(out_packet))
                      /\ inner.rest = TextOf(out_packet)

----------------------------------------------------------------------------
(* Properties of the control channel (SpecProxy) *)

\* C20: every byte a control task has read has been published, one
\* tx.send per byte, however the bytes were grouped into reads.
C20_EveryByteIsPublished ==
    \A k \in 1..Len(ctls) :
       (ctls[k].task \in {"running", "ended"} /\ ctls[k].wire = <<>>) =>
          ctls[k].published = ctls[k].written

----------------------------------------------------------------------------
(* Properties of the mode under a fair accept loop (SpecProxyFair) *)

\* C21: before any control byte has been published every connection is
\* dispatched as a relay; and once no more bytes are published the mode
\* the accept loop dispatches with becomes the value published last, and
\* stays that value, as long as the loop runs.
C21_LastPublishedWins ==
    /\ [](~mode_sent =>
            /\ should_proxy
            /\ \A c \in 1..Len(conns) : conns[c].should_proxy)
    /\ <>[](proxy = "running" => should_proxy = mode_state)

\* two control connections have each published and no byte is left unread;
\* a byte that selects the responder was published last, the accept loop
\* has taken it over and a connection accepted since is a responder
C21_Witness ==
    /\ proxy = "running"
    /\ Len(ctls) = 2
    /\ \A k \in 1..Len(ctls) :
          /\ ctls[k].task = "running"
          /\ ctls[k].wire = <<>>
          /\ ctls[k].published = 1
    /\ ~mode_state
    /\ ~should_proxy
    /\ Len(conns) = 1
    /\ ~conns[1].should_proxy
    /\ conns[1].pc = "responding"

====
